---- MODULE Spec2Model ----
(***************************************************************************)
(* Model of package tracelog (src/tracelog.go, src/logcalls.go): the       *)
(* process-wide logger singleton, the destination router turnOnLogging,    *)
(* the serialized logging calls, the alert forwarder SendEmailException    *)
(* and the retention sweep LogDirectoryCleanup.                            *)
(***************************************************************************)
EXTENDS Integers, Sequences, FiniteSets, TLC

\* ------------------------------------------------------------------ bounds
NumProcs == 2        \* goroutines that issue logging calls
MaxStarts == 2       \* Start/StartFile calls made by the initializing thread
MaxEntries == 2      \* directory entries that exist in baseDir before StartFile
MaxKeep == 6         \* largest daysToKeep value passed to StartFile
StackLimit == 2      \* nested SendEmailException calls the goroutine stack holds

\* ------------------------------------------------------------------- state
VARIABLES
  logger,     \* the package variable logger (a traceLog value)
  lastCall,   \* the most recent Start/StartFile call and its arguments
  starts,     \* number of Start/StartFile calls made so far
  openFiles,  \* handles returned by os.Create and not closed
  stopped,    \* what the most recent Stop closed and returned
  baseDir,      \* the entries of baseDir
  utcDate,        \* the UTC date
  task,       \* the initializing thread: the StartFile or Stop call it is in
  exited,     \* the process has terminated (log.Fatalf, fatal error, panic)
  pc,         \* per caller: where it is in its logging call
  fn,         \* per caller: the logging function it is in
  wrote,      \* per caller: the base writers its Output call wrote to
  depth,      \* per caller: SendEmailException calls nested in CatchPanic
  sent,       \* per caller: mail dispatch attempts of the current call
  ret         \* per caller: what SendEmailException returned to the call

vars == << logger, lastCall, starts, openFiles, stopped, baseDir, utcDate, task,
           exited, pc, fn, wrote, depth, sent, ret >>

mainVars == << lastCall, starts, openFiles, stopped, baseDir, utcDate, task >>
procVars == << pc, fn, wrote, depth, sent, ret >>

\* --------------------------------------------------------- level constants
LEVEL_TRACE == 1
LEVEL_INFO == 2
LEVEL_WARN == 4
LEVEL_ERROR == 8

\* every OR-combination of the four level bits, 0 included
LevelMasks == 0 .. (2 * LEVEL_ERROR - 1)

\* logLevel & bit, for a single-bit constant
BitAnd(logLevel, bit) == ((logLevel \div bit) % 2) * bit

\* io.MultiWriter that writes to its second writer first
MultiWriter_secondFirst(a, b) == b \o a

\* -------------------------------------------------------------- io.Writers
\* A writer is the sequence of the base writers it writes to, in order;
\* io.MultiWriter(a, b) writes to a and then to b.
Discard == << [w |-> "discard", h |-> 0] >>
Stdout == << [w |-> "stdout", h |-> 0] >>
Stderr == << [w |-> "stderr", h |-> 0] >>
FileWriter(h) == << [w |-> "file", h |-> h] >>
MultiWriter(a, b) == a \o b

\* the nil io.Writer / nil *os.File
NoFile == 0

\* *log.Logger values: log.New(out, prefix, flags); the nil pointer
NewLogger(out, prefix) == [out |-> out, prefix |-> prefix]
NilLogger == [out |-> << >>, prefix |-> "nil"]

\* *emailConfiguration: 0 is nil, n > 0 is the configuration of the n-th
\* ConfigureEmail argument set
NoEmail == 0

\* ------------------------------------------------------------ turnOnLogging
\* resolveHandles with the WARN test also opening the info handle
resolveHandles_warnOpensInfo(logLevel) ==
  LET onT == BitAnd(logLevel, LEVEL_TRACE) # 0
      onI == BitAnd(logLevel, LEVEL_INFO) # 0
      onW == BitAnd(logLevel, LEVEL_WARN) # 0
      onE == BitAnd(logLevel, LEVEL_ERROR) # 0
  IN  [traceHandle |-> IF onT THEN Stdout ELSE Discard,
       infoHandle |-> IF onT \/ onI \/ onW THEN Stdout ELSE Discard,
       warnHandle |-> IF onT \/ onI \/ onW THEN Stdout ELSE Discard,
       errorHandle |-> IF onT \/ onI \/ onW \/ onE THEN Stderr ELSE Discard]

\* the four handles after the level tests, before the file is attached
resolveHandles(logLevel) ==
  LET t0 == Discard
      i0 == Discard
      w0 == Discard
      e0 == Discard
      onT == BitAnd(logLevel, LEVEL_TRACE) # 0
      t1 == IF onT THEN Stdout ELSE t0
      i1 == IF onT THEN Stdout ELSE i0
      w1 == IF onT THEN Stdout ELSE w0
      e1 == IF onT THEN Stderr ELSE e0
      onI == BitAnd(logLevel, LEVEL_INFO) # 0
      i2 == IF onI THEN Stdout ELSE i1
      w2 == IF onI THEN Stdout ELSE w1
      e2 == IF onI THEN Stderr ELSE e1
      onW == BitAnd(logLevel, LEVEL_WARN) # 0
      w3 == IF onW THEN Stdout ELSE w2
      e3 == IF onW THEN Stderr ELSE e2
      onE == BitAnd(logLevel, LEVEL_ERROR) # 0
      e4 == IF onE THEN Stderr ELSE e3
  IN  [traceHandle |-> t1, infoHandle |-> i2, warnHandle |-> w3, errorHandle |-> e4]

\* attachFile without the tests for a console stream: every handle is upgraded
attachFile_upgradesAll(hs, fileHandle) ==
  IF fileHandle # NoFile
  THEN [traceHandle |-> MultiWriter(FileWriter(fileHandle), hs.traceHandle),
        infoHandle  |-> MultiWriter(FileWriter(fileHandle), hs.infoHandle),
        warnHandle  |-> MultiWriter(FileWriter(fileHandle), hs.warnHandle),
        errorHandle |-> MultiWriter(FileWriter(fileHandle), hs.errorHandle)]
  ELSE hs

\* the MultiWriter upgrade of the handles that are a console stream
attachFile(hs, fileHandle) ==
  IF fileHandle # NoFile
  THEN [traceHandle |-> IF hs.traceHandle = Stdout
                        THEN MultiWriter(FileWriter(fileHandle), hs.traceHandle)
                        ELSE hs.traceHandle,
        infoHandle  |-> IF hs.infoHandle = Stdout
                        THEN MultiWriter(FileWriter(fileHandle), hs.infoHandle)
                        ELSE hs.infoHandle,
        warnHandle  |-> IF hs.warnHandle = Stdout
                        THEN MultiWriter(FileWriter(fileHandle), hs.warnHandle)
                        ELSE hs.warnHandle,
        errorHandle |-> IF hs.errorHandle = Stderr
                        THEN MultiWriter(FileWriter(fileHandle), hs.errorHandle)
                        ELSE hs.errorHandle]
  ELSE hs

\* the zero value of traceLog, which is what the struct literal of
\* turnOnLogging leaves in every field it does not name
ZeroLogger ==
  [LogLevel |-> 0, Serialize |-> FALSE, EmailConfiguration |-> NoEmail,
   Trace |-> NilLogger, Info |-> NilLogger, Warning |-> NilLogger,
   Error |-> NilLogger, File |-> NilLogger, LogFile |-> NoFile]

\* turnOnLogging that leaves a logger of the previous configuration in place
\* where the new configuration resolves to the discard writer
turnOnLogging_keepsOld(logLevel, fileHandle) ==
  LET hs == attachFile(resolveHandles(logLevel), fileHandle)
      keep(prev, h, prefix) ==
        IF h = Discard /\ prev # NilLogger THEN prev ELSE NewLogger(h, prefix)
  IN  [ZeroLogger EXCEPT
         !.Trace = keep(logger.Trace, hs.traceHandle, "TRACE: "),
         !.Info = keep(logger.Info, hs.infoHandle, "INFO: "),
         !.Warning = keep(logger.Warning, hs.warnHandle, "WARNING: "),
         !.Error = keep(logger.Error, hs.errorHandle, "ERROR: "),
         !.LogLevel = logLevel]

\* the value of the package variable logger after turnOnLogging(logLevel, fileHandle)
turnOnLogging(logLevel, fileHandle) ==
  LET hs == attachFile(resolveHandles(logLevel), fileHandle)
  IN  [ZeroLogger EXCEPT
         !.Trace = NewLogger(hs.traceHandle, "TRACE: "),
         !.Info = NewLogger(hs.infoHandle, "INFO: "),
         !.Warning = NewLogger(hs.warnHandle, "WARNING: "),
         !.Error = NewLogger(hs.errorHandle, "ERROR: "),
         !.LogLevel = logLevel]

\* ------------------------------------------------------- strings and dates
\* A file name is the sequence of its characters; Alphabet lists the
\* characters used, in byte order (the order ioutil.ReadDir sorts names by).
Alphabet ==
  << "+", "-", "0", "1", "2", "3", "4", "5", "6", "7", "8", "9",
     "a", "b", "c", "d", "e", "k", "l", "n", "o", "p", "t", "u" >>

CharRank(c) == CHOOSE i \in 1 .. Len(Alphabet) : Alphabet[i] = c

DigitChars == << "0", "1", "2", "3", "4", "5", "6", "7", "8", "9" >>

IsDigit(c) == \E i \in 1 .. 10 : DigitChars[i] = c

DigitVal(c) == (CHOOSE i \in 1 .. 10 : DigitChars[i] = c) - 1

\* s < t in byte order
RECURSIVE NameLess(_, _)
NameLess(s, t) ==
  IF t = << >> THEN FALSE
  ELSE IF s = << >> THEN TRUE
  ELSE IF Head(s) # Head(t) THEN CharRank(Head(s)) < CharRank(Head(t))
  ELSE NameLess(Tail(s), Tail(t))

\* strings.Split(s, "-")
RECURSIVE Split(_)
Split(s) ==
  IF \A i \in 1 .. Len(s) : s[i] # "-" THEN << s >>
  ELSE LET k == CHOOSE i \in 1 .. Len(s) :
                  s[i] = "-" /\ \A j \in 1 .. (i - 1) : s[j] # "-"
       IN  << SubSeq(s, 1, k - 1) >> \o Split(SubSeq(s, k + 1, Len(s)))

RECURSIVE DigitsValue(_, _)
DigitsValue(s, acc) ==
  IF s = << >> THEN acc ELSE DigitsValue(Tail(s), acc * 10 + DigitVal(Head(s)))

\* strconv.Atoi(s): an optional sign and at least one decimal digit
Atoi(s) ==
  LET signed == s # << >> /\ Head(s) \in {"+", "-"}
      body == IF signed THEN Tail(s) ELSE s
  IN  IF body = << >> \/ \E i \in 1 .. Len(body) : ~IsDigit(body[i])
      THEN [ok |-> FALSE, val |-> 0]
      ELSE [ok |-> TRUE,
            val |-> IF signed /\ Head(s) = "-"
                    THEN 0 - DigitsValue(body, 0) ELSE DigitsValue(body, 0)]

IsLeap(year) == year % 4 = 0 /\ (year % 100 # 0 \/ year % 400 = 0)

DaysBefore == << 0, 31, 59, 90, 120, 151, 181, 212, 243, 273, 304, 334 >>

\* time.Date(year, month, day, 0, 0, 0, 0, time.UTC) as a day number: the
\* month is normalised into 1..12 with carry into the year, the day is not
\* range-checked and simply offsets from the first of the month.
DateDays(year, month, day) ==
  LET m0 == month - 1
      y == year + (m0 \div 12)
      m == (m0 % 12) + 1
      n == y - 1
      beforeYear == n * 365 + (n \div 4) - (n \div 100) + (n \div 400)
      leapDay == IF IsLeap(y) /\ m >= 3 THEN 1 ELSE 0
  IN  beforeYear + DaysBefore[m] + leapDay + day - 1

\* the largest time.Duration in whole days: Sub saturates at +/- 2^63-1 ns
MaxDurationDays == 106751

\* int(compareDate.Sub(directoryDate).Hours() / 24)
DaysOld(compareDay, directoryDay) ==
  LET diff == compareDay - directoryDay
  IN  IF diff > MaxDurationDays THEN MaxDurationDays
      ELSE IF diff < 0 - MaxDurationDays THEN 0 - MaxDurationDays
      ELSE diff

\* n as exactly `width` decimal digits, zero padded
RECURSIVE Pad(_, _)
Pad(n, width) ==
  IF width = 0 THEN << >>
  ELSE Pad(n \div 10, width - 1) \o << DigitChars[(n % 10) + 1] >>

\* t.Format("2006-01-02")
FormatDate(t) == Pad(t.year, 4) \o << "-" >> \o Pad(t.month, 2) \o << "-" >> \o Pad(t.day, 2)

\* ---------------------------------------------------------- directory state
\* An entry of baseDir: its name, whether it is a directory, and whether
\* os.RemoveAll succeeds on it.
Candidates ==
  {
    [name |-> <<"2", "0", "2", "4", "-", "0", "6", "-", "0", "4">>, isDir |-> TRUE, removable |-> TRUE],
    [name |-> <<"2", "0", "2", "4", "-", "0", "6", "-", "0", "5">>, isDir |-> TRUE, removable |-> TRUE],
    [name |-> <<"2", "0", "2", "4", "-", "0", "6", "-", "0", "6">>, isDir |-> TRUE, removable |-> TRUE],
    [name |-> <<"2", "0", "2", "4", "-", "0", "6", "-", "1", "1">>, isDir |-> TRUE, removable |-> TRUE],
    [name |-> <<"2", "0", "2", "4", "-", "0", "2", "-", "2", "6">>, isDir |-> TRUE, removable |-> TRUE],
    [name |-> <<"2", "0", "2", "4", "-", "0", "2", "-", "2", "7">>, isDir |-> TRUE, removable |-> TRUE],
    [name |-> <<"0", "0", "0", "1", "-", "0", "1", "-", "0", "1">>, isDir |-> TRUE, removable |-> TRUE],
    [name |-> <<"n", "o", "t", "a", "d", "a", "t", "e">>, isDir |-> TRUE, removable |-> TRUE],
    [name |-> <<"2", "0", "2", "3", "-", "b", "a", "c", "k", "u", "p">>, isDir |-> TRUE, removable |-> TRUE],
    [name |-> <<"2", "0", "2", "4">>, isDir |-> TRUE, removable |-> TRUE],
    [name |-> <<"2", "0", "2", "4", "-", "0", "6">>, isDir |-> TRUE, removable |-> TRUE],
    [name |-> <<"2", "0", "2", "4", "-", "0", "6", "-", "0", "1", "-", "o", "l", "d">>, isDir |-> TRUE, removable |-> TRUE],
    [name |-> <<"2", "0", "2", "4", "-", "0", "6", "-", "0", "1">>, isDir |-> FALSE, removable |-> TRUE],
    [name |-> <<"2", "0", "2", "4", "-", "0", "6", "-", "0", "2">>, isDir |-> TRUE, removable |-> FALSE],
    [name |-> <<"2", "0", "2", "4", "-", "0", "2", "-", "2", "5">>, isDir |-> TRUE, removable |-> FALSE]
  }

\* the values time.Now().UTC() takes; the date does not change during a run
Today == [year |-> 2024, month |-> 6, day |-> 10]
Todays == { Today, [year |-> 2024, month |-> 3, day |-> 2] }

\* ioutil.ReadDir: the entries sorted by file name
RECURSIVE ReadDir(_)
ReadDir(files) ==
  IF files = {} THEN << >>
  ELSE LET first == CHOOSE e \in files :
                      \A o \in files \ {e} : NameLess(e.name, o.name)
       IN  << first >> \o ReadDir(files \ {first})

\* os.MkdirAll(filePath): the date directory exists afterwards
MkdirAll(files, name) ==
  IF \E e \in files : e.name = name THEN files
  ELSE files \cup { [name |-> name, isDir |-> TRUE, removable |-> TRUE] }

\* --------------------------------------------------------- LogDirectoryCleanup
\* the days of a month of the calendar
DaysInMonth(year, month) ==
  IF month = 2 THEN (IF IsLeap(year) THEN 29 ELSE 28)
  ELSE IF month \in {4, 6, 9, 11} THEN 30 ELSE 31

\* the day after t
NextDay(t) ==
  IF t.day < DaysInMonth(t.year, t.month) THEN [t EXCEPT !.day = @ + 1]
  ELSE IF t.month < 12 THEN [t EXCEPT !.month = @ + 1, !.day = 1]
  ELSE [year |-> t.year + 1, month |-> 1, day |-> 1]

\* time.Date(year, month, day - daysToKeep, ...) of the clock value now
CompareDay(now, daysToKeep) == DateDays(now.year, now.month, now.day - daysToKeep)

\* What the body of the loop does with one entry of fileInfos:
\*   "skip"     not a directory: continue
\*   "badname"  strconv.Atoi fails on one of the first three parts: Errorf, continue
\*   "panic"    parts[1] or parts[2] is read and is not there: index out of range
\*   "keep"     daysOld < 0
\*   "remove"   daysOld >= 0: os.RemoveAll
entryVerdict(fileInfo, compareDay) ==
  LET parts == Split(fileInfo.name)
      year == Atoi(parts[1])
      month == Atoi(parts[2])
      day == Atoi(parts[3])
      directoryDay == DateDays(year.val, month.val, day.val)
      daysOld == DaysOld(compareDay, directoryDay)
  IN  IF ~fileInfo.isDir THEN "skip"
      ELSE IF ~year.ok THEN "badname"
      ELSE IF Len(parts) < 2 THEN "panic"
      ELSE IF ~month.ok THEN "badname"
      ELSE IF Len(parts) < 3 THEN "panic"
      ELSE IF ~day.ok THEN "badname"
      ELSE IF daysOld >= 0 THEN "remove"
      ELSE "keep"


Procs == 1 .. NumProcs

\* the initializing thread, which calls Start, StartFile, ConfigureEmail and
\* Stop, and every thread that is in a logging call
Main == 0
Callers == Procs \cup {Main}

\* the argument sets ConfigureEmail is called with
EmailConfigs == {1, 2}

\* the logging functions of logcalls.go; each stands for its f and cd variants too
TraceFns == {"Started", "Completed", "Trace"}
ErrorFns == {"Error", "CompletedError"}
AlertFns == {"Alert", "CompletedAlert"}
LogFns == TraceFns \cup {"Info", "Warning"} \cup ErrorFns \cup AlertFns

\* the *log.Logger a logging function passes its line to
LoggerOf(lg, f) ==
  IF f \in TraceFns THEN lg.Trace
  ELSE IF f = "Info" THEN lg.Info
  ELSE IF f = "Warning" THEN lg.Warning
  ELSE lg.Error

NoCall == [op |-> "none", logLevel |-> 0, fileHandle |-> NoFile, daysToKeep |-> 0]
NotStopped == [called |-> FALSE, closed |-> NoFile, err |-> "nil"]

\* the initializing thread is in no call
NoTask ==
  [op |-> "none", at |-> "idle", daysToKeep |-> 0, dir |-> << >>,
   listed |-> FALSE, now |-> Today, fileInfos |-> << >>, i |-> 0,
   failed |-> {}, closed |-> NoFile, err |-> "nil"]

\* listings of baseDir with at most MaxEntries entries, no name used twice
Listings ==
  { l \in SUBSET Candidates :
      /\ Cardinality(l) <= MaxEntries
      /\ \A a, b \in l : a.name = b.name => a = b }

InitProcs ==
  /\ pc = [p \in Callers |-> "idle"]
  /\ fn = [p \in Callers |-> "none"]
  /\ wrote = [p \in Callers |-> << >>]
  /\ depth = [p \in Callers |-> 0]
  /\ sent = [p \in Callers |-> 0]
  /\ ret = [p \in Callers |-> "none"]

\* the state after package initialization: logger is the zero traceLog
Init ==
  /\ logger = ZeroLogger
  /\ lastCall = NoCall
  /\ starts = 0
  /\ openFiles = {}
  /\ stopped = NotStopped
  /\ baseDir = {}
  /\ utcDate = Today
  /\ task = NoTask
  /\ exited = FALSE
  /\ InitProcs

\* ---------------------------------------------------- initializing thread
\* the initializing thread is between two calls of the package
MainIdle == task.at = "idle" /\ pc[Main] \in {"idle", "done"}

\* the initializing thread enters logging function f
mainCall(f) ==
  /\ pc' = [pc EXCEPT ![Main] = "lock"]
  /\ fn' = [fn EXCEPT ![Main] = f]
  /\ wrote' = [wrote EXCEPT ![Main] = << >>]
  /\ depth' = [depth EXCEPT ![Main] = 0]
  /\ sent' = [sent EXCEPT ![Main] = 0]
  /\ ret' = [ret EXCEPT ![Main] = "none"]

\* Start(logLevel)
Start(logLevel) ==
  /\ ~exited
  /\ MainIdle
  /\ starts < MaxStarts
  /\ logger' = turnOnLogging(logLevel, NoFile)
  /\ lastCall' = [op |-> "Start", logLevel |-> logLevel,
                  fileHandle |-> NoFile, daysToKeep |-> 0]
  /\ starts' = starts + 1
  /\ UNCHANGED << openFiles, stopped, baseDir, utcDate, task, exited, procVars >>

\* StartFile(logLevel, baseFilePath, daysToKeep) up to the first lock of its
\* sweep: the clock is read for the name of the date directory (the read
\* before it names the log file, which is known here by its handle),
\* os.MkdirAll and os.Create succeed, turnOnLogging turns logging on with the file, and
\* LogDirectoryCleanup enters Startedf.
StartFile(logLevel, daysToKeep) ==
  /\ ~exited
  /\ MainIdle
  /\ starts < MaxStarts
  /\ LET logf == starts + 1
         made == MkdirAll(baseDir, FormatDate(utcDate))
     IN  /\ \E e \in made : e.name = FormatDate(utcDate) /\ e.isDir
         /\ baseDir' = made
         /\ logger' = turnOnLogging(logLevel, logf)
         /\ openFiles' = openFiles \cup {logf}
         /\ lastCall' = [op |-> "StartFile", logLevel |-> logLevel,
                         fileHandle |-> logf, daysToKeep |-> daysToKeep]
  /\ starts' = starts + 1
  /\ task' = [NoTask EXCEPT !.op = "StartFile", !.at = "started",
                            !.daysToKeep = daysToKeep,
                            !.dir = FormatDate(utcDate), !.now = utcDate]
  /\ mainCall("Started")
  /\ UNCHANGED << stopped, utcDate, exited >>

\* StartFile when os.MkdirAll fails, or when it has made the date directory
\* (created) and os.Create fails: log.Fatalf ends the process
StartFileFatal(created) ==
  /\ ~exited
  /\ MainIdle
  /\ starts < MaxStarts
  /\ IF created
     THEN LET made == MkdirAll(baseDir, FormatDate(utcDate))
          IN  /\ \E e \in made : e.name = FormatDate(utcDate) /\ e.isDir
              /\ baseDir' = made
     ELSE baseDir' = baseDir
  /\ exited' = TRUE
  /\ UNCHANGED << logger, lastCall, starts, openFiles, stopped, utcDate, task,
                  procVars >>

\* LogDirectoryCleanup(baseFilePath, daysToKeep) from the return of one of
\* its logging calls to its next logging call, or to its return.  listOk is
\* whether ioutil.ReadDir lists baseFilePath (it does not when the process
\* may not read it, or when baseFilePath is "/", which StartFile trims to "").
\*   "started"  Startedf is done: ReadDir; on an error CompletedError and
\*              return; else the clock is read for compareDate, then Trace
\*   "loop"     the entry fileInfos[i]: continue, Errorf, Trace (Checking
\*              Directory), or the index panic, which the deferred
\*              CatchPanic recovers and reports with SendEmailException;
\*              after the last entry, Completed
\*   "checked"  Trace is done: if daysOld >= 0, Trace (Removing Directory)
\*   "remove"   os.RemoveAll, then Trace on success and on failure
\*   "return"   LogDirectoryCleanup and StartFile return
LogDirectoryCleanup(listOk) ==
  /\ ~exited
  /\ task.op = "StartFile"
  /\ task.at # "idle"
  /\ pc[Main] = "done"
  /\ task.at # "started" => listOk
  /\ LET fileInfo == task.fileInfos[task.i]
         verdict == entryVerdict(fileInfo, CompareDay(task.now, task.daysToKeep))
     IN
     IF task.at = "started"
     THEN IF listOk
          THEN /\ task' = [task EXCEPT !.at = "loop", !.listed = TRUE,
                                       !.fileInfos = ReadDir(baseDir),
                                       !.now = utcDate, !.i = 1]
               /\ mainCall("Trace")
               /\ UNCHANGED baseDir
          ELSE /\ task' = [task EXCEPT !.at = "return"]
               /\ mainCall("CompletedError")
               /\ UNCHANGED baseDir
     ELSE IF task.at = "loop"
     THEN IF task.i > Len(task.fileInfos)
          THEN /\ task' = [task EXCEPT !.at = "return"]
               /\ mainCall("Completed")
               /\ UNCHANGED baseDir
          ELSE IF verdict = "skip"
          THEN /\ task' = [task EXCEPT !.i = @ + 1]
               /\ UNCHANGED << baseDir, procVars >>
          ELSE IF verdict = "badname"
          THEN /\ task' = [task EXCEPT !.i = @ + 1]
               /\ mainCall("Error")
               /\ UNCHANGED baseDir
          ELSE IF verdict = "panic"
          THEN /\ task' = [task EXCEPT !.at = "return"]
               /\ pc' = [pc EXCEPT ![Main] = "send"]
               /\ fn' = [fn EXCEPT ![Main] = "CatchPanic"]
               /\ wrote' = [wrote EXCEPT ![Main] = << >>]
               /\ depth' = [depth EXCEPT ![Main] = 0]
               /\ sent' = [sent EXCEPT ![Main] = 0]
               /\ ret' = [ret EXCEPT ![Main] = "none"]
               /\ UNCHANGED baseDir
          ELSE /\ task' = [task EXCEPT !.at = "checked"]
               /\ mainCall("Trace")
               /\ UNCHANGED baseDir
     ELSE IF task.at = "checked"
     THEN IF verdict = "remove"
          THEN /\ task' = [task EXCEPT !.at = "remove"]
               /\ mainCall("Trace")
               /\ UNCHANGED baseDir
          ELSE /\ task' = [task EXCEPT !.at = "loop", !.i = @ + 1]
               /\ UNCHANGED << baseDir, procVars >>
     ELSE IF task.at = "remove"
     THEN /\ IF fileInfo.removable
             THEN /\ baseDir' = baseDir \ {fileInfo}
                  /\ task' = [task EXCEPT !.at = "loop", !.i = @ + 1]
             ELSE /\ baseDir' = baseDir
                  /\ task' = [task EXCEPT !.at = "loop", !.i = @ + 1,
                                          !.failed = @ \cup {fileInfo}]
          /\ mainCall("Trace")
     ELSE /\ task' = [task EXCEPT !.at = "idle"]
          /\ UNCHANGED << baseDir, procVars >>
  /\ UNCHANGED << logger, lastCall, starts, openFiles, stopped, utcDate, exited >>

\* midnight UTC passes
Tick ==
  /\ ~exited
  /\ utcDate \in Todays
  /\ utcDate' = NextDay(utcDate)
  /\ UNCHANGED << logger, lastCall, starts, openFiles, stopped, baseDir, task,
                  exited, procVars >>

\* ConfigureEmail(host, port, userName, password, to)
ConfigureEmail(c) ==
  /\ ~exited
  /\ MainIdle
  /\ logger' = [logger EXCEPT !.EmailConfiguration = c]
  /\ UNCHANGED << mainVars, exited, procVars >>

\* Stop() up to the lock of its first logging call, Started
Stop ==
  /\ ~exited
  /\ MainIdle
  /\ task' = [NoTask EXCEPT !.op = "Stop", !.at = "started"]
  /\ mainCall("Started")
  /\ UNCHANGED << logger, lastCall, starts, openFiles, stopped, baseDir, utcDate,
                  exited >>

\* Stop() from the return of one of its logging calls on.
\*   "started"  Started is done: if logger.LogFile is set, Trace
\*              (Closing File); else Completed
\*   "closing"  Trace is done: logger.LogFile.Close(), which returns
\*              closeErr, then Completed
\*   "return"   Completed is done: Stop returns err
stopNext(closeErr) ==
  /\ ~exited
  /\ task.op = "Stop"
  /\ task.at # "idle"
  /\ pc[Main] = "done"
  /\ task.at # "closing" => closeErr = "nil"
  /\ IF task.at = "started"
     THEN /\ IF logger.LogFile # NoFile
             THEN /\ task' = [task EXCEPT !.at = "closing"]
                  /\ mainCall("Trace")
             ELSE /\ task' = [task EXCEPT !.at = "return"]
                  /\ mainCall("Completed")
          /\ UNCHANGED << openFiles, stopped >>
     ELSE IF task.at = "closing"
     THEN /\ openFiles' = openFiles \ {logger.LogFile}
          /\ task' = [task EXCEPT !.at = "return", !.closed = logger.LogFile,
                                  !.err = closeErr]
          /\ mainCall("Completed")
          /\ UNCHANGED stopped
     ELSE /\ stopped' = [called |-> TRUE, closed |-> task.closed, err |-> task.err]
          /\ task' = [task EXCEPT !.at = "idle"]
          /\ UNCHANGED << openFiles, procVars >>
  /\ UNCHANGED << logger, lastCall, starts, baseDir, utcDate, exited >>


\* ------------------------------------------------------------ logging calls
\* a goroutine enters logging function f (its message is formatted first)
Call(p, f) ==
  /\ ~exited
  /\ pc[p] \in {"idle", "done"}
  /\ pc' = [pc EXCEPT ![p] = "lock"]
  /\ fn' = [fn EXCEPT ![p] = f]
  /\ wrote' = [wrote EXCEPT ![p] = << >>]
  /\ depth' = [depth EXCEPT ![p] = 0]
  /\ sent' = [sent EXCEPT ![p] = 0]
  /\ ret' = [ret EXCEPT ![p] = "none"]
  /\ UNCHANGED << logger, mainVars, exited >>

\* Lock that does not wait for the mutex to be free
Lock_noWait(p) ==
  /\ ~exited
  /\ pc[p] = "lock"
  /\ logger' = [logger EXCEPT !.Serialize = TRUE]
  /\ pc' = [pc EXCEPT ![p] = "output"]
  /\ UNCHANGED << mainVars, exited, fn, wrote, depth, sent, ret >>

\* logger.Serialize.Lock()
Lock(p) ==
  /\ ~exited
  /\ pc[p] = "lock"
  /\ ~logger.Serialize
  /\ logger' = [logger EXCEPT !.Serialize = TRUE]
  /\ pc' = [pc EXCEPT ![p] = "output"]
  /\ UNCHANGED << mainVars, exited, fn, wrote, depth, sent, ret >>

\* What one Write of a line to writer `out` can leave written: the base
\* writers are written in order and the Write stops at the first one that
\* fails (io.MultiWriter); a write to ioutil.Discard does not fail.
WriteResults(out) ==
  { SubSeq(out, 1, k) : k \in { n \in 0 .. Len(out) :
                                   n = Len(out) \/ out[n + 1].w # "discard" } }

\* logger.<Severity>.Output(callDepth, line): one Write of the line to the
\* logger's writer, which succeeds (ok) or returns an error the logging
\* function drops; on a nil *log.Logger the call panics, the lock still held
Output(p, ok) ==
  /\ ~exited
  /\ pc[p] = "output"
  /\ LET l == LoggerOf(logger, fn[p])
     IN  IF l = NilLogger
         THEN /\ ok
              /\ pc' = [pc EXCEPT ![p] = "panicked"]
              /\ exited' = TRUE
              /\ wrote' = wrote
         ELSE /\ pc' = [pc EXCEPT ![p] = "unlock"]
              /\ exited' = exited
              /\ \E w \in WriteResults(l.out) :
                   /\ ok <=> (w = l.out)
                   /\ wrote' = [wrote EXCEPT ![p] = w]
  /\ UNCHANGED << logger, mainVars, fn, depth, sent, ret >>

\* Unlock that is skipped when the write returned an error
Unlock_skippedAfterError(p) ==
  /\ ~exited
  /\ pc[p] = "unlock"
  /\ IF wrote[p] # LoggerOf(logger, fn[p]).out
     THEN /\ logger' = logger
          /\ pc' = [pc EXCEPT ![p] = IF fn[p] \in AlertFns THEN "send" ELSE "done"]
          /\ exited' = exited
     ELSE IF logger.Serialize
     THEN /\ logger' = [logger EXCEPT !.Serialize = FALSE]
          /\ pc' = [pc EXCEPT ![p] = IF fn[p] \in AlertFns THEN "send" ELSE "done"]
          /\ exited' = exited
     ELSE /\ logger' = logger
          /\ pc' = [pc EXCEPT ![p] = "fatal"]
          /\ exited' = TRUE
  /\ UNCHANGED << mainVars, fn, wrote, depth, sent, ret >>

\* Unlock that an Alert-class call puts off until its mail has been sent
Unlock_afterSend(p) ==
  /\ ~exited
  /\ pc[p] = "unlock"
  /\ IF logger.Serialize
     THEN /\ logger' = IF fn[p] \in AlertFns THEN logger
                       ELSE [logger EXCEPT !.Serialize = FALSE]
          /\ pc' = [pc EXCEPT ![p] = IF fn[p] \in AlertFns THEN "send" ELSE "done"]
          /\ exited' = exited
     ELSE /\ logger' = logger
          /\ pc' = [pc EXCEPT ![p] = "fatal"]
          /\ exited' = TRUE
  /\ UNCHANGED << mainVars, fn, wrote, depth, sent, ret >>

\* logger.Serialize.Unlock(); Unlock of an unlocked mutex is a fatal error.
\* An Alert-class function goes on to SendEmailException, the others return.
Unlock(p) ==
  /\ ~exited
  /\ pc[p] = "unlock"
  /\ IF logger.Serialize
     THEN /\ logger' = [logger EXCEPT !.Serialize = FALSE]
          /\ pc' = [pc EXCEPT ![p] = IF fn[p] \in AlertFns THEN "send" ELSE "done"]
          /\ exited' = exited
     ELSE /\ logger' = logger
          /\ pc' = [pc EXCEPT ![p] = "fatal"]
          /\ exited' = TRUE
  /\ UNCHANGED << mainVars, fn, wrote, depth, sent, ret >>

\* SendEmailException returns r.  A call nested in CatchPanic (depth > 0)
\* returns into the recover handler of the call that panicked; the handler
\* stores the panic value through its err pointer, and the call that
\* panicked then returns the zero value of its unnamed result.
returnFromSend(p, r) ==
  /\ pc' = [pc EXCEPT ![p] = "done"]
  /\ ret' = [ret EXCEPT ![p] = IF depth[p] = 0 THEN r ELSE "nil"]
  /\ depth' = [depth EXCEPT ![p] = 0]


\* SendEmailException without the test of the configuration
SendEmailException_noNilTest(p) ==
  /\ ~exited
  /\ pc[p] = "send"
  /\ pc' = [pc EXCEPT ![p] = "dispatch"]
  /\ UNCHANGED << logger, mainVars, exited, fn, wrote, sent, ret, depth >>

\* SendEmailException, the test of logger.EmailConfiguration == nil
SendEmailException(p) ==
  /\ ~exited
  /\ pc[p] = "send"
  /\ IF logger.EmailConfiguration = NoEmail
     THEN returnFromSend(p, "nil")
     ELSE /\ pc' = [pc EXCEPT ![p] = "dispatch"]
          /\ UNCHANGED << ret, depth >>
  /\ UNCHANGED << logger, mainVars, exited, fn, wrote, sent >>

\* A panic inside SendEmailException: the deferred CatchPanic recovers it
\* and calls SendEmailException for the system alert, one call deeper.  When
\* the goroutine stack holds no further call the runtime ends the process
\* with a stack overflow, which no recover stops.
catchPanic(p) ==
  IF depth[p] < StackLimit
  THEN /\ pc' = [pc EXCEPT ![p] = "send"]
       /\ depth' = [depth EXCEPT ![p] = depth[p] + 1]
       /\ UNCHANGED << exited, ret >>
  ELSE /\ pc' = [pc EXCEPT ![p] = "overflow"]
       /\ exited' = TRUE
       /\ UNCHANGED << depth, ret >>

\* SendEmailException from the read of the configuration to the rendered
\* message.  If the configuration has been cleared since the test, the read
\* panics; otherwise the package's template is executed on the parameters.
\* Nothing has been dispatched yet.
renderMessage(p) ==
  /\ ~exited
  /\ pc[p] = "dispatch"
  /\ IF logger.EmailConfiguration = NoEmail
     THEN catchPanic(p)
     ELSE /\ pc' = [pc EXCEPT ![p] = "smtp"]
          /\ UNCHANGED << exited, depth, ret >>
  /\ UNCHANGED << logger, mainVars, fn, wrote, sent >>

\* SendEmailException, the call of smtp.SendMail.  Its arguments are read
\* from the configuration first: if the configuration has been cleared the
\* read panics and smtp.SendMail is not called.  Otherwise it is called,
\* one dispatch attempt, and returns nil or an error, or panics (r).
SendMail(p, r) ==
  /\ ~exited
  /\ pc[p] = "smtp"
  /\ IF logger.EmailConfiguration = NoEmail
     THEN /\ catchPanic(p)
          /\ UNCHANGED sent
     ELSE /\ sent' = [sent EXCEPT ![p] = sent[p] + 1]
          /\ IF r = "panic"
             THEN catchPanic(p)
             ELSE returnFromSend(p, r) /\ UNCHANGED exited
  /\ UNCHANGED << logger, mainVars, fn, wrote >>

\* ----------------------------------------------------------- specifications
\* The initializing thread alone: every level mask, every operation.
ConfigNext ==
  \/ \E logLevel \in LevelMasks : Start(logLevel)
  \/ \E logLevel \in LevelMasks : StartFile(logLevel, 1)
  \/ \E created \in BOOLEAN : StartFileFatal(created)
  \/ LogDirectoryCleanup(TRUE)
  \/ \E c \in EmailConfigs : ConfigureEmail(c)
  \/ Stop
  \/ \E closeErr \in {"nil", "err"} : stopNext(closeErr)
  \/ Lock(Main)
  \/ Output(Main, TRUE)
  \/ Unlock(Main)

SpecConfig == Init /\ [][ConfigNext]_vars

\* Goroutines logging under a configuration that is not being changed: the
\* state after Start or StartFile (and possibly ConfigureEmail), then only
\* logging calls.
\* the masks of the stable configurations: nothing, errors only, everything
StableMasks == {0, LEVEL_ERROR, 2 * LEVEL_ERROR - 1}

\* what smtp.SendMail can do: return nil, return an error, panic
SendResults == {"nil", "err", "panic"}

InitStable ==
  /\ \E logLevel \in StableMasks, logf \in {NoFile, 1}, c \in {NoEmail, 1} :
       /\ logger = [turnOnLogging(logLevel, logf) EXCEPT !.EmailConfiguration = c]
       /\ lastCall = [op |-> IF logf = NoFile THEN "Start" ELSE "StartFile",
                      logLevel |-> logLevel, fileHandle |-> logf,
                      daysToKeep |-> IF logf = NoFile THEN 0 ELSE 1]
       /\ openFiles = IF logf = NoFile THEN {} ELSE {logf}
       /\ baseDir = IF logf = NoFile THEN {} ELSE MkdirAll({}, FormatDate(Today))
  /\ starts = 1
  /\ stopped = NotStopped
  /\ utcDate = Today
  /\ task = NoTask
  /\ exited = FALSE
  /\ InitProcs

\* one logging function for each logger, and one of the Alert class
StableFns == {"Started", "Info", "Warning", "Error", "Alert"}

StableNext ==
  \E p \in Procs :
    \/ \E f \in StableFns : Call(p, f)
    \/ Lock(p)
    \/ \E ok \in BOOLEAN : Output(p, ok)
    \/ Unlock(p)
    \/ SendEmailException(p)
    \/ renderMessage(p)
    \/ \E r \in SendResults : SendMail(p, r)

SpecStable == InitStable /\ [][StableNext]_vars

\* The sweep of StartFile over the listings of baseDir.
InitSweep ==
  /\ logger = ZeroLogger
  /\ lastCall = NoCall
  /\ starts = 0
  /\ openFiles = {}
  /\ stopped = NotStopped
  /\ baseDir \in Listings
  /\ utcDate \in Todays
  /\ task = NoTask
  /\ exited = FALSE
  /\ InitProcs

SweepNext ==
  \/ \E daysToKeep \in (0 - 1) .. MaxKeep : StartFile(LEVEL_TRACE, daysToKeep)
  \/ \E created \in BOOLEAN : StartFileFatal(created)
  \/ \E listOk \in BOOLEAN : LogDirectoryCleanup(listOk)
  \/ Tick
  \/ Lock(Main)
  \/ Output(Main, TRUE)
  \/ Unlock(Main)
  \/ SendEmailException(Main)

SpecSweep == InitSweep /\ [][SweepNext]_vars

\* The whole program: the initializing thread and the goroutines together,
\* over the level masks and logging functions that differ in what the
\* goroutines do.
RaceMasks == {0, LEVEL_ERROR}
RaceFns == {"Alert"}
\* in the races the mail server answers: the panics are those of a
\* configuration cleared between the test and the dispatch
RaceResults == {"nil", "err"}
RaceConfigs == {1}

Next ==
  \/ \E logLevel \in RaceMasks : Start(logLevel)
  \/ \E logLevel \in RaceMasks : StartFile(logLevel, 1)
  \/ \E created \in BOOLEAN : StartFileFatal(created)
  \/ LogDirectoryCleanup(TRUE)
  \/ \E c \in RaceConfigs : ConfigureEmail(c)
  \/ Stop
  \/ \E closeErr \in {"nil", "err"} : stopNext(closeErr)
  \/ \E p \in Procs, f \in RaceFns : Call(p, f)
  \/ \E p \in Callers :
       \/ Lock(p)
       \/ Output(p, TRUE)
       \/ Unlock(p)
  \/ \E p \in Procs :
       \/ SendEmailException(p)
       \/ renderMessage(p)
       \/ \E r \in RaceResults : SendMail(p, r)

Spec == Init /\ [][Next]_vars

\* ------------------------------------------------------------------ claims
\* the level bits of a mask, read off its binary digits
TraceOn(L) == L % 2 = 1
InfoOn(L) == (L \div 2) % 2 = 1
WarnOn(L) == (L \div 4) % 2 = 1
ErrorOn(L) == (L \div 8) % 2 = 1

\* the else-if cascade of the destination router, most verbose level first
CascadeSinks(L) ==
  IF TraceOn(L)
  THEN [trace |-> Stdout, info |-> Stdout, warn |-> Stdout, error |-> Stderr]
  ELSE IF InfoOn(L)
  THEN [trace |-> Discard, info |-> Stdout, warn |-> Stdout, error |-> Stderr]
  ELSE IF WarnOn(L)
  THEN [trace |-> Discard, info |-> Discard, warn |-> Stdout, error |-> Stderr]
  ELSE IF ErrorOn(L)
  THEN [trace |-> Discard, info |-> Discard, warn |-> Discard, error |-> Stderr]
  ELSE [trace |-> Discard, info |-> Discard, warn |-> Discard, error |-> Discard]

\* LogLevel()
LogLevel == logger.LogLevel

\* C1: after Start(L) the four sinks are those of the else-if cascade: trace
\* is stdout iff TRACE is set, info iff TRACE or INFO, warn iff TRACE, INFO or
\* WARN, error is stderr iff any bit is set, every other sink is the discard
\* writer.
C1_SinksFollowCascade ==
  lastCall.op = "Start" =>
    /\ logger.Trace.out = CascadeSinks(lastCall.logLevel).trace
    /\ logger.Info.out = CascadeSinks(lastCall.logLevel).info
    /\ logger.Warning.out = CascadeSinks(lastCall.logLevel).warn
    /\ logger.Error.out = CascadeSinks(lastCall.logLevel).error
    /\ (logger.Trace.out = Stdout <=> TraceOn(lastCall.logLevel))
    /\ (logger.Info.out = Stdout <=>
          TraceOn(lastCall.logLevel) \/ InfoOn(lastCall.logLevel))
    /\ (logger.Warning.out = Stdout <=>
          TraceOn(lastCall.logLevel) \/ InfoOn(lastCall.logLevel)
            \/ WarnOn(lastCall.logLevel))
    /\ (logger.Error.out = Stderr <=> lastCall.logLevel # 0)

\* C1 witness: Start with the WARN bit alone has left trace and info
\* discarding and warn and error active.
C1_Witness ==
  /\ lastCall.op = "Start"
  /\ lastCall.logLevel = LEVEL_WARN
  /\ logger.Trace.out = Discard
  /\ logger.Info.out = Discard
  /\ logger.Warning.out = Stdout
  /\ logger.Error.out = Stderr

\* whether a writer writes to the file h / to a console stream
HasFile(out, h) == \E i \in 1 .. Len(out) : out[i] = [w |-> "file", h |-> h]
HasAnyFile(out) == \E i \in 1 .. Len(out) : out[i].w = "file"
HasConsole(out) == \E i \in 1 .. Len(out) : out[i].w \in {"stdout", "stderr"}

\* whether severity sev has an active console sink under mask L
ActiveUnder(sev, L) ==
  IF sev = "trace" THEN TraceOn(L)
  ELSE IF sev = "info" THEN TraceOn(L) \/ InfoOn(L)
  ELSE IF sev = "warn" THEN TraceOn(L) \/ InfoOn(L) \/ WarnOn(L)
  ELSE L # 0

Severities == {"trace", "info", "warn", "error"}

SinkOf(sev) ==
  IF sev = "trace" THEN logger.Trace
  ELSE IF sev = "info" THEN logger.Info
  ELSE IF sev = "warn" THEN logger.Warning
  ELSE logger.Error

\* C2: after turnOnLogging with a file handle, a severity writes to the file
\* if and only if its console sink is active under the mask; a severity
\* resolved to the discard writer does not write to the file.
C2_FileMirrorsConsole ==
  lastCall.op = "StartFile" =>
    \A sev \in Severities :
      /\ HasFile(SinkOf(sev).out, lastCall.fileHandle)
           <=> ActiveUnder(sev, lastCall.logLevel)
      /\ HasAnyFile(SinkOf(sev).out) <=> HasConsole(SinkOf(sev).out)
      /\ ~ActiveUnder(sev, lastCall.logLevel) => SinkOf(sev).out = Discard

\* C2 witness: StartFile with the WARN bit alone: warn and error fan out to
\* the file, trace and info write nowhere.
C2_Witness ==
  /\ lastCall.op = "StartFile"
  /\ lastCall.logLevel = LEVEL_WARN
  /\ HasFile(logger.Warning.out, lastCall.fileHandle)
  /\ HasFile(logger.Error.out, lastCall.fileHandle)
  /\ ~HasAnyFile(logger.Trace.out)
  /\ ~HasAnyFile(logger.Info.out)

\* the goroutines between Serialize.Lock and Serialize.Unlock
InCritical == { p \in Callers : pc[p] \in {"output", "unlock"} }

\* C3: under a configuration that is not being changed, at most one caller
\* is between Lock and Unlock, and the mutex is held while one is: no write
\* of a line happens while another call is between its Lock and Unlock.
C3_OneWriterAtATime ==
  /\ Cardinality(InCritical) <= 1
  /\ InCritical # {} => logger.Serialize

\* C3 witness: one caller has written its line to the trace sink and still
\* holds the lock while another, bound for the error sink, waits for it.
C3_Witness ==
  \E p, q \in Procs :
    /\ p # q
    /\ pc[p] = "unlock"
    /\ fn[p] \in TraceFns
    /\ wrote[p] # << >>
    /\ pc[q] = "lock"
    /\ fn[q] \in ErrorFns \cup AlertFns

\* C4: Stop after a StartFile that opened a log file closes that handle and
\* returns the close error; Stop after Start closes nothing and returns nil.
C4_StopClosesLogFile ==
  [][ (stopped' # stopped /\ ~exited') =>
        /\ lastCall.op = "StartFile" =>
             /\ stopped'.closed = lastCall.fileHandle
             /\ lastCall.fileHandle \notin openFiles'
        /\ lastCall.op = "Start" =>
             /\ stopped'.closed = NoFile
             /\ stopped'.err = "nil"
             /\ openFiles' = openFiles ]_vars


\* the sweep listed the directory, has made its last logging call and is
\* about to return
SweepDone ==
  /\ task.op = "StartFile" /\ task.at = "return" /\ task.listed
  /\ pc[Main] = "done"

\* the entries ioutil.ReadDir gave that sweep
Listing == { task.fileInfos[i] : i \in 1 .. Len(task.fileInfos) }

\* the name is ten characters, YYYY-MM-DD, and names a calendar date
IsDateName(name) ==
  /\ Len(name) = 10
  /\ name[5] = "-" /\ name[8] = "-"
  /\ \A i \in {1, 2, 3, 4, 6, 7, 9, 10} : IsDigit(name[i])
  /\ LET y == DigitsValue(SubSeq(name, 1, 4), 0)
         m == DigitsValue(SubSeq(name, 6, 7), 0)
         d == DigitsValue(SubSeq(name, 9, 10), 0)
     IN  y >= 1 /\ m \in 1 .. 12 /\ d \in 1 .. DaysInMonth(y, m)

\* the calendar date a date name stands for, as a day number
DayOfName(name) ==
  DateDays(DigitsValue(SubSeq(name, 1, 4), 0), DigitsValue(SubSeq(name, 6, 7), 0),
           DigitsValue(SubSeq(name, 9, 10), 0))

DayOf(t) == DateDays(t.year, t.month, t.day)

\* a directory the sweep can delete whose date is on or before
\* today - daysToKeep
Expired(e, t, daysToKeep) ==
  /\ e.isDir /\ e.removable /\ IsDateName(e.name)
  /\ DayOfName(e.name) <= DayOf(t) - daysToKeep

\* C5: the sweep deletes a subdirectory named by a valid date if and only if
\* that date is on or before today - daysToKeep; with daysToKeep >= 0 a
\* future-dated directory is retained.
C5_DeletesExactlyTheExpired ==
  SweepDone =>
    \A e \in Listing :
      (e.isDir /\ e.removable /\ IsDateName(e.name)) =>
        /\ (e \notin baseDir) <=> Expired(e, task.now, task.daysToKeep)
        /\ (task.daysToKeep >= 0 /\ DayOfName(e.name) > DayOf(task.now))
             => e \in baseDir

\* the name does not parse as YYYY-MM-DD: it has fewer than three
\* dash-separated parts, or one of the first three is not an integer
NotParsing(name) ==
  LET parts == Split(name)
  IN  \/ Len(parts) < 3
      \/ \E i \in 1 .. 3 : ~Atoi(parts[i]).ok

\* C6: a subdirectory whose name does not parse as YYYY-MM-DD is skipped and
\* the sweep goes on to every remaining entry: the entry stays and every
\* expired directory of the listing is deleted all the same.
C6_MalformedNameDoesNotEndSweep ==
  SweepDone =>
    \A bad \in Listing :
      (bad.isDir /\ NotParsing(bad.name)) =>
        /\ bad \in baseDir
        /\ \A e \in Listing :
             Expired(e, task.now, task.daysToKeep) => e \notin baseDir

\* the name is exactly three dash-separated integer fields
ThreeIntegerFields(name) ==
  LET parts == Split(name)
  IN  Len(parts) = 3 /\ \A i \in 1 .. 3 : Atoi(parts[i]).ok

\* C7: the sweep deletes only directories whose name is exactly three
\* dash-separated integer fields; regular files and directories with any
\* other name are never deleted.
C7_DeletesOnlyDateDirectories ==
  [][ \A e \in baseDir :
        e \notin baseDir' => (e.isDir /\ ThreeIntegerFields(e.name)) ]_vars

\* C8: once ConfigureEmail has set the email configuration, only another
\* ConfigureEmail call changes it: Start, StartFile, the logging calls and
\* Stop leave it as it is.
C8_EmailConfigurationStays ==
  [][ logger.EmailConfiguration # NoEmail =>
        \/ logger'.EmailConfiguration = logger.EmailConfiguration
        \/ \E c \in EmailConfigs : ConfigureEmail(c) ]_vars

\* the writer the router gives severity sev for mask L and file handle h
ExpectedOut(sev, L, h) ==
  IF ~ActiveUnder(sev, L) THEN << [w |-> "discard", h |-> 0] >>
  ELSE LET console == [w |-> IF sev = "error" THEN "stderr" ELSE "stdout", h |-> 0]
       IN  IF h = NoFile THEN << console >>
           ELSE << [w |-> "file", h |-> h], console >>

\* C9: after any sequence of Start/StartFile calls the four sinks and
\* LogLevel() are those of the most recent call's arguments alone: no sink
\* keeps a console stream or a file of an earlier configuration.
C9_LastCallDecidesSinks ==
  lastCall.op # "none" =>
    /\ LogLevel = lastCall.logLevel
    /\ \A sev \in Severities :
         SinkOf(sev).out = ExpectedOut(sev, lastCall.logLevel, lastCall.fileHandle)

\* C9 witness: Start(ERROR) after an earlier StartFile: trace, info and warn
\* discard and error writes to stderr alone, not to the file opened before.
C9_Witness ==
  /\ lastCall.op = "Start"
  /\ lastCall.logLevel = LEVEL_ERROR
  /\ starts = 2
  /\ openFiles # {}
  /\ logger.Trace.out = Discard
  /\ logger.Info.out = Discard
  /\ logger.Warning.out = Discard
  /\ logger.Error.out = Stderr
  /\ LogLevel = LEVEL_ERROR

\* C10: when no email configuration is set, SendEmailException returns nil
\* and smtp.SendMail is not invoked.
C10_NoConfigurationNoDispatch ==
  [][ \A p \in Procs :
        (pc[p] = "send" /\ pc'[p] # "send" /\ logger.EmailConfiguration = NoEmail) =>
          /\ pc'[p] = "done"
          /\ ret'[p] = "nil"
          /\ sent'[p] = sent[p] ]_vars

\* C10 witness: an Alert-class call has returned with no configuration set,
\* its line written, nil returned and no mail dispatched.
C10_Witness ==
  \E p \in Procs :
    /\ pc[p] = "done"
    /\ fn[p] \in AlertFns
    /\ logger.EmailConfiguration = NoEmail
    /\ logger.Error # NilLogger
    /\ ret[p] = "nil"
    /\ sent[p] = 0

\* ------------------------------------------------ panics in SendEmailException
\* C11: a panic raised inside SendEmailException, in the secondary alert
\* attempt as in the first one, is recovered at CatchPanic: the step that
\* leaves the dispatch goes back into the forwarder or returns to the
\* caller, and the process is still running.
C11_PanicIsContained ==
  [][ \A p \in Procs :
        (pc[p] \in {"dispatch", "smtp"} /\ pc'[p] # pc[p]) =>
          (~exited' /\ pc'[p] \in {"send", "smtp", "done"}) ]_vars

\* C12: when a panic has been recovered inside SendEmailException, the call
\* returns a non-nil error to its caller.
C12_RecoveredPanicReturnsError ==
  [][ \A p \in Procs :
        (pc[p] \in {"send", "smtp"} /\ depth[p] > 0 /\ pc'[p] = "done") =>
          ret'[p] # "nil" ]_vars

\* ------------------------------------------------------------ the global lock
\* the write of goroutine p left out a writer of its logger: it failed
WriteFailed(p) == wrote[p] # LoggerOf(logger, fn[p]).out

\* C13: the lock is held only while a logging call is between its Lock and
\* its Unlock, whether the write succeeded or returned an error: with no
\* call there the lock is free.
C13_LockFreeOutsideCalls ==
  logger.Serialize => InCritical # {}

\* C13 witness: a call has returned after a write that failed, and another
\* call has taken the lock since.
C13_Witness ==
  \E p, q \in Procs :
    /\ pc[p] = "done" /\ WriteFailed(p)
    /\ pc[q] = "output" /\ logger.Serialize

\* C14: while an Alert-class call is in SendEmailException it does not hold
\* the lock: its line has been through Output, and the lock is free or held
\* by another call that is in its own critical section.
C14_MailSentOutsideLock ==
  \A p \in Procs :
    pc[p] \in {"send", "dispatch", "smtp"} =>
      /\ fn[p] \in AlertFns
      /\ logger.Serialize => \E q \in Procs \ {p} : q \in InCritical

\* C14 witness: one goroutine is at the mail dispatch of its Alert call
\* while another one holds the lock and writes.
C14_Witness ==
  \E p, q \in Procs :
    /\ pc[p] = "smtp" /\ sent[p] = 0
    /\ pc[q] = "output" /\ logger.Serialize

\* --------------------------------------------------------- deletion failures
\* C15: when the deletion of an expired directory fails, that directory
\* stays and the sweep goes on: every expired directory that can be deleted
\* is deleted.
C15_DeletionFailureIsSkipped ==
  (SweepDone /\ task.failed # {}) =>
    /\ task.failed \subseteq baseDir
    /\ \A e \in Listing :
         Expired(e, task.now, task.daysToKeep) => e \notin baseDir

\* -------------------------------------------------------- re-initialization
\* C16: Start or StartFile called while a logging call holds the lock leaves
\* the lock as it is: no second writer gets into the critical section and
\* no Unlock finds the lock unlocked.
C16_LockSurvivesReinit ==
  /\ Cardinality(InCritical) <= 1
  /\ \A p \in Procs : pc[p] # "fatal"

\* C17: every call of SendEmailException comes to an end: the calls nested
\* through CatchPanic never use up the goroutine stack.
C17_NestingIsBounded ==
  \A p \in Procs : pc[p] # "overflow"

\* ------------------------------------------------------- today's directory
\* C18: after a StartFile whose sweep listed the directory, the date
\* directory StartFile made is there exactly when daysToKeep is 1 or more:
\* with daysToKeep 0 or less the sweep has deleted it.
C18_TodayKeptIffPositive ==
  SweepDone =>
    ((\E e \in baseDir : e.name = task.dir) <=> task.daysToKeep >= 1)

\* ------------------------------------------------------------ the fan-out
Past(p) == pc[p] \in {"unlock", "send", "dispatch", "smtp", "done", "overflow"}

\* C19: on a sink with a log file attached the line goes to the file first
\* and to the console stream after it: the console has the line only if the
\* write to the file succeeded.
C19_FileBeforeConsole ==
  \A p \in Procs :
    (Past(p) /\ HasAnyFile(LoggerOf(logger, fn[p]).out)) =>
      \A i \in 1 .. Len(wrote[p]) :
        wrote[p][i].w \in {"stdout", "stderr"} =>
          \E j \in 1 .. (i - 1) : wrote[p][j].w = "file"

\* C19 witness: one call wrote its line to the file and to the console, and
\* the write of another one failed at the file and left the console without
\* the line.
C19_Witness ==
  \E p, q \in Procs :
    /\ Past(p) /\ Past(q)
    /\ HasAnyFile(LoggerOf(logger, fn[p]).out) /\ HasConsole(LoggerOf(logger, fn[p]).out)
    /\ HasAnyFile(LoggerOf(logger, fn[q]).out) /\ HasConsole(LoggerOf(logger, fn[q]).out)
    /\ wrote[p] = LoggerOf(logger, fn[p]).out
    /\ wrote[q] = << >>

\* ------------------------------------------------------ dispatch and the mask
\* C20: an Alert-class call whose SendEmailException finds a configuration
\* set makes exactly one mail dispatch attempt, whatever the level mask:
\* when the call returns, smtp.SendMail has been called once.
C20_ExactlyOneDispatch ==
  [][ \A p \in Procs :
        (/\ fn[p] \in AlertFns
         /\ pc[p] \in {"send", "smtp"} /\ pc'[p] = "done"
         /\ (depth[p] > 0 \/ pc[p] = "smtp")) =>
          sent'[p] = 1 ]_vars

====
